---- MODULE Spec2Model ----
(***************************************************************************)
(* Automation action dispatcher (router.post("/run")), the in-memory       *)
(* storage behind it (MemStorage) and the Instagram automation library it  *)
(* calls.  A JavaScript handler runs atomically between two awaits, so     *)
(* every action below is one such segment of one handler.                  *)
(***************************************************************************)
EXTENDS Integers, Sequences, FiniteSets, TLC

\* ------------------------------------------------------------------ bounds
MaxCookies == 2
MaxClock == 1
MaxLimit == 2

\* ----------------------------------------------------------- input domains
Handlers == {1, 2}
Users == {1, 2}

\* A string field that is undefined or "" (both falsy in JavaScript).
NoValue == ""
\* A post URL is a sequence of characters; the empty one is undefined or "".
NoUrl == <<>>
GoodUrl == <<"h","t","t","p","s",":","/","/","e","x","a","m","p","l","e",".","c","o","m","/","p","/","A","B","C","1","2","3","/">>
BadUrl == <<"n","o","t","-","a","-","v","a","l","i","d","-","u","r","l">>

Usernames == {NoValue, "alice"}
PostUrls == {NoUrl, BadUrl, GoodUrl}
CommentTexts == {NoValue, "nice"}
CommentIds == {NoValue, "17"}
CookieStrings == {"csrftoken=abc123; sessionid=xyz"}
CookieNames == {"main"}

Req(t, u, p, ct, ci) ==
  [type |-> t, username |-> u, postUrl |-> p, commentText |-> ct, commentId |-> ci]

\* req.body of POST /run: each kind with the fields it reads, present or not.
Requests ==
  {Req(t, u, NoUrl, NoValue, NoValue) :
      t \in {"follow", "unfollow", "profile_info", "duplicates", "share", NoValue},
      u \in Usernames}
  \cup {Req(t, NoValue, p, NoValue, NoValue) : t \in {"like", "unlike"}, p \in PostUrls}
  \cup {Req("comment", NoValue, p, ct, NoValue) : p \in PostUrls, ct \in CommentTexts}
  \cup {Req("delete_comment", NoValue, p, NoValue, ci) :
          p \in {NoUrl, GoodUrl}, ci \in CommentIds}

\* What the remote platform (or the transport) answers to one request:
\* status 0 is a transport fault; body is the shape of response.data.
ProfileBodies == {"none", "user_null", "user_without_id", "user_55"}
Responses ==
  {[status |-> 0, body |-> "none"], [status |-> 404, body |-> "none"],
   [status |-> 201, body |-> "none"]}
  \cup {[status |-> 200, body |-> b] : b \in ProfileBodies}

\* ------------------------------------------------------- JavaScript basics
\* !v is false exactly for a non-empty string (or non-empty URL).
Truthy(v) == v # NoValue
TruthyUrl(u) == u # NoUrl

\* The string a character sequence spells.
Str(cs) ==
  LET spelt[i \in 0..Len(cs)] == IF i = 0 THEN "" ELSE spelt[i - 1] \o cs[i]
  IN  spelt[Len(cs)]

Digits == <<"0", "1", "2", "3", "4", "5", "6", "7", "8", "9">>

\* The decimal digits of a natural number, most significant first.
Decimal[n \in Nat] ==
  IF n < 10 THEN Digits[n + 1] ELSE Decimal[n \div 10] \o Digits[(n % 10) + 1]

\* Number.prototype.toString() of an integer.
NumberToString(n) == IF n < 0 THEN "-" \o Decimal[0 - n] ELSE Decimal[n]

\* ---------------------------------------------------- JavaScript Numbers
\* A Number holding an integer is kept exactly: its sign and the bits of
\* its magnitude, most significant first (no bits for zero).  A double
\* holds SignificandBits significant bits; the bits after them are zeros.
\* (The operations are functions: their arguments are values.)
SignificandBits == 53

Bit == {0, 1}
Digit == 0..9
Numbers == [neg : BOOLEAN, bits : Seq(Bit)]

Zeros(n) == [i \in 1..n |-> 0]

\* A sequence of bits or digits without its leading zeros.
StripZeros[a \in Seq(Digit)] ==
  LET nz == {i \in 1..Len(a) : a[i] # 0}
  IN  IF nz = {} THEN <<>>
      ELSE SubSeq(a, CHOOSE i \in nz : \A j \in nz : i <= j, Len(a))

\* The six bits of d in 0..63.
SixBits(d) == [i \in 1..6 |-> (d \div (2 ^ (6 - i))) % 2]

\* a + 1 and a - 1 (a not zero) on bits.
BitsPlusOne[a \in Seq(Bit)] ==
  LET zs == {i \in 1..Len(a) : a[i] = 0}
  IN  IF zs = {} THEN <<1>> \o Zeros(Len(a))
      ELSE LET p == CHOOSE i \in zs : \A j \in zs : j <= i
           IN  SubSeq(a, 1, p - 1) \o <<1>> \o Zeros(Len(a) - p)

BitsMinusOne[a \in Seq(Bit)] ==
  LET os == {i \in 1..Len(a) : a[i] = 1}
      p == CHOOSE i \in os : \A j \in os : j <= i
  IN  StripZeros[SubSeq(a, 1, p - 1) \o <<0>> \o [i \in 1..(Len(a) - p) |-> 1]]

\* The double nearest to the integer with bits a, ties to the even
\* significand (IEEE 754 round-to-nearest-even).
RoundToDouble[a \in Seq(Bit)] ==
  IF Len(a) <= SignificandBits THEN a
  ELSE LET kept == SubSeq(a, 1, SignificandBits)
           rest == SubSeq(a, SignificandBits + 1, Len(a))
           sticky == \E i \in 2..Len(rest) : rest[i] = 1
           up == rest[1] = 1 /\ (sticky \/ kept[SignificandBits] = 1)
       IN  (IF up THEN BitsPlusOne[kept] ELSE kept) \o Zeros(Len(rest))

\* x * 64 + d for a Number x and an integer d in -1..63, in double
\* arithmetic: the product is exact, the sum is rounded.
TimesSixtyFourPlus[x \in Numbers, d \in -1..63] ==
  LET abs == IF d < 0 THEN 0 - d ELSE d
      sum == IF x.bits = <<>> THEN StripZeros[SixBits(abs)]
             ELSE IF abs = 0 THEN x.bits \o Zeros(6)
             ELSE IF x.neg = (d < 0) THEN x.bits \o SixBits(abs)
             ELSE StripZeros[BitsMinusOne[x.bits] \o SixBits(64 - abs)]
  IN  [neg |-> IF x.bits = <<>> THEN d < 0 ELSE x.neg, bits |-> RoundToDouble[sum]]

\* Sums and order of naturals written as decimal digits, most significant
\* first (no digits for zero).
DigitAt(a, i) == IF i <= Len(a) THEN a[Len(a) + 1 - i] ELSE 0

DigitsPlus[a \in Seq(Digit), b \in Seq(Digit)] ==
  LET n == (IF Len(a) > Len(b) THEN Len(a) ELSE Len(b)) + 1
      carry[i \in 0..n] ==
        IF i = 0 THEN 0 ELSE (DigitAt(a, i) + DigitAt(b, i) + carry[i - 1]) \div 10
  IN  StripZeros[[j \in 1..n |->
        (DigitAt(a, n + 1 - j) + DigitAt(b, n + 1 - j) + carry[n - j]) % 10]]

DigitsLess[a \in Seq(Digit), b \in Seq(Digit)] ==
  \/ Len(a) < Len(b)
  \/ /\ Len(a) = Len(b)
     /\ \E i \in 1..Len(a) : a[i] < b[i] /\ \A j \in 1..(i - 1) : a[j] = b[j]

\* The digits of a * m + d, for 0 <= d < m <= 2^20.
DigitsTimesPlus[a \in Seq(Digit), m \in Nat, d \in Nat] ==
  LET n == Len(a) + 7
      carry[i \in 0..n] ==
        IF i = 0 THEN d ELSE (DigitAt(a, i) * m + carry[i - 1]) \div 10
  IN  StripZeros[[j \in 1..n |-> (DigitAt(a, n + 1 - j) * m + carry[n - j]) % 10]]

\* The decimal digits of the integer with bits a, twenty bits at a time.
DigitsOfBits[a \in Seq(Bit)] ==
  LET chunks == (Len(a) + 19) \div 20
      low(i) == Len(a) - (chunks - i) * 20
      chunk[i \in 1..chunks, k \in 0..20] ==
        IF k = 0 THEN 0
        ELSE 2 * chunk[i, k - 1]
             + (IF low(i) - 20 + k >= 1 THEN a[low(i) - 20 + k] ELSE 0)
      value[i \in 0..chunks] ==
        IF i = 0 THEN <<>> ELSE DigitsTimesPlus[value[i - 1], 1048576, chunk[i, 20]]
  IN  value[chunks]

\* Among the values that differ from x (digits) in its last digits only,
\* with zeros there, the one Number::toString prints for the double x:
\* above and below are the distances from x to the midpoints between x and
\* its neighbouring doubles (1/2 is kept as its floor, 0), which denote x
\* themselves when the significand of x is even.
ShortestAmong[x \in Seq(Digit), above \in Seq(Digit), below \in Seq(Digit), even \in BOOLEAN] ==
  LET tail(j) == StripZeros[SubSeq(x, Len(x) - j + 1, Len(x))]
      power(j) == <<1>> \o Zeros(j)
      \* x - tail(j) and x - tail(j) + 10^j denote the double
      floorDenotes(j) ==
        IF even THEN ~DigitsLess[below, tail(j)] ELSE DigitsLess[tail(j), below]
      ceilDenotes(j) ==
        IF even THEN ~DigitsLess[DigitsPlus[tail(j), above], power(j)]
        ELSE DigitsLess[power(j), DigitsPlus[tail(j), above]]
      js == {j \in 0..(Len(x) - 1) : floorDenotes(j) \/ ceilDenotes(j)}
      j == CHOOSE i \in js : \A k \in js : k <= i
      floor == SubSeq(x, 1, Len(x) - j) \o Zeros(j)
      ceil == DigitsPlus[floor, power(j)]
      twice == DigitsPlus[tail(j), tail(j)]
  IN  IF ~ceilDenotes(j) THEN floor
      ELSE IF ~floorDenotes(j) THEN ceil
      ELSE IF DigitsLess[twice, power(j)] THEN floor
      ELSE IF DigitsLess[power(j), twice] THEN ceil
      ELSE IF x[Len(x) - j] % 2 = 0 THEN floor ELSE ceil

\* The decimal digits Number::toString chooses for the double with bits a
\* (a not zero): as few significant digits as still denote that double,
\* the closest such value, zeros after them.  An integer below
\* 2^SignificandBits is denoted by its own digits only.
ShortestDigits[a \in Seq(Bit)] ==
  IF Len(a) <= SignificandBits THEN DigitsOfBits[a]
  ELSE LET e == Len(a) - SignificandBits
           \* under a power of two the doubles lie twice as close
           halved == \A i \in 2..Len(a) : a[i] = 0
       IN  ShortestAmong[DigitsOfBits[a],
                         DigitsOfBits[<<1>> \o Zeros(e - 1)],
                         IF ~halved THEN DigitsOfBits[<<1>> \o Zeros(e - 1)]
                         ELSE IF e = 1 THEN <<>>
                         ELSE DigitsOfBits[<<1>> \o Zeros(e - 2)],
                         a[SignificandBits] = 0]

\* The string of a sequence of decimal digits.
DigitText[ds \in Seq(Digit)] ==
  LET text[i \in 0..Len(ds)] == IF i = 0 THEN "" ELSE text[i - 1] \o Digits[ds[i] + 1]
  IN  text[Len(ds)]

\* The notation of Number::toString for the digits ds: decimal up to 21
\* digits, exponential beyond.
Notation[ds \in Seq(Digit)] ==
  LET n == Len(ds)
      nz == {i \in 1..n : ds[i] # 0}
      k == CHOOSE i \in nz : \A m \in nz : m <= i
  IN  IF n <= 21 THEN DigitText[ds]
      ELSE DigitText[<<ds[1]>>]
           \o (IF k > 1 THEN "." \o DigitText[SubSeq(ds, 2, k)] ELSE "")
           \o "e+" \o Decimal[n - 1]

\* Number::toString(x) of an integer-valued Number.
toString[x \in Numbers] ==
  IF x.bits = <<>> THEN "0"
  ELSE (IF x.neg THEN "-" ELSE "") \o Notation[ShortestDigits[x.bits]]

\* axios resolves when validateStatus accepts the status (default: 2xx) and
\* rejects on a transport fault or any other status.
AxiosResolves(resp) == resp.status >= 200 /\ resp.status < 300

\* error.message of the Error axios rejects with.
AxiosErrorMessage(resp) ==
  IF resp.status = 0 THEN "Network Error"
  ELSE "Request failed with status code " \o NumberToString(resp.status)

\* { ...a, ...b }
Spread(a, b) ==
  [k \in DOMAIN a \cup DOMAIN b |-> IF k \in DOMAIN b THEN b[k] ELSE a[k]]

\* -------------------------------------------------------------- MemStorage
\* A Map is kept as the sequence of its values in insertion order (cookies)
\* or as a function of its keys (activityLogs, whose keys only grow).

\* undefined
Undefined == [undefined |-> TRUE]

\* Map.set(key, value) on a Map kept as the sequence of its values in
\* insertion order: a key the Map has keeps its place.
MapSet(m, key, value) ==
  IF \E i \in 1..Len(m) : m[i].id = key
  THEN [i \in 1..Len(m) |-> IF m[i].id = key THEN value ELSE m[i]]
  ELSE Append(m, value)

\* hashPassword: salt ':' derived key.
hashPassword(password, salt) == salt \o ":scrypt(" \o password \o "," \o salt \o ")"

\* MemStorage.getUserByUsername: the first user of that name in Map order.
getUserByUsername(us, username) ==
  IF \E i \in 1..Len(us) : us[i].username = username
  THEN us[CHOOSE i \in 1..Len(us) :
            /\ us[i].username = username
            /\ \A j \in 1..(i - 1) : us[j].username # username]
  ELSE Undefined

\* MemStorage.createUser: [users, userId, user] after the call.
createUser(us, uid, userData, t) ==
  LET newUser == Spread(userData, [id |-> uid, createdAt |-> t])
  IN  [users |-> MapSet(us, uid, newUser), userId |-> uid + 1, user |-> newUser]

\* MemStorage.createAdminUser after its await: [users, userId].
createAdminUser(us, uid, hashedPassword, t) ==
  [users |-> MapSet(us, 1, [id |-> 1, username |-> "david",
                            email |-> "admin@example.com",
                            password |-> hashedPassword,
                            role |-> "admin", createdAt |-> t]),
   userId |-> uid + 1]

\* getCookiesByUserId without the userId filter.
getCookiesByUserId_all(cks, userId) == cks

\* getCookiesByUserId that returns the user's cookies newest first.
getCookiesByUserId_newestFirst(cks, userId) ==
  LET mine == SelectSeq(cks, LAMBDA c : c.userId = userId)
  IN  [i \in 1..Len(mine) |-> mine[Len(mine) + 1 - i]]

\* MemStorage.getCookiesByUserId: the user's cookies in Map order.
getCookiesByUserId(cks, userId) ==
  SelectSeq(cks, LAMBDA c : c.userId = userId)

\* MemStorage.createCookie: [cookies, cookieId, newCookie] after the call.
createCookie(cks, cid, cookie, t) ==
  LET newCookie == Spread(cookie, [id |-> cid, createdAt |-> t])
  IN  [cookies |-> Append(cks, newCookie), cookieId |-> cid + 1, newCookie |-> newCookie]

\* MemStorage.deleteCookie: [cookies, deleted] after the call; the other
\* cookies keep their order.
deleteCookie(cks, id) ==
  [cookies |-> SelectSeq(cks, LAMBDA c : c.id # id),
   deleted |-> \E i \in 1..Len(cks) : cks[i].id = id]

\* MemStorage.getActivityLogsByUserId(userId, limit), limit >= 0: the user's
\* entries in Map order (the order of insertion, which is the order of the
\* ids), sorted by the comparator b.createdAt - a.createdAt (Array.sort is
\* stable: entries of equal createdAt keep their Map order), the first
\* limit of them.
getActivityLogsByUserId(logs, userId, limit) ==
  LET mine == {i \in DOMAIN logs : logs[i].userId = userId}
      before(i, j) ==
        \/ logs[i].createdAt > logs[j].createdAt
        \/ logs[i].createdAt = logs[j].createdAt /\ i < j
      sorted == [k \in 1..Cardinality(mine) |->
                   logs[CHOOSE i \in mine : Cardinality({j \in mine : before(j, i)}) = k - 1]]
  IN  SubSeq(sorted, 1, IF limit < Len(sorted) THEN limit ELSE Len(sorted))

\* createActivityLog that counts this.logId down.
createActivityLog_countsDown(logs, lid, log, t) ==
  LET newLog == Spread(log, [id |-> lid, createdAt |-> t])
  IN  [activityLogs |-> [i \in DOMAIN logs \cup {lid} |->
                           IF i = lid THEN newLog ELSE logs[i]],
       logId |-> lid - 1,
       newLog |-> newLog]

\* createActivityLog that reads this.logId without advancing it.
createActivityLog_sameId(logs, lid, log, t) ==
  LET newLog == Spread(log, [id |-> lid, createdAt |-> t])
  IN  [activityLogs |-> [i \in DOMAIN logs \cup {lid} |->
                           IF i = lid THEN newLog ELSE logs[i]],
       logId |-> lid,
       newLog |-> newLog]

\* MemStorage.createActivityLog: [activityLogs, logId, newLog] after the call.
createActivityLog(logs, lid, log, t) ==
  LET newLog == Spread(log, [id |-> lid, createdAt |-> t])
  IN  [activityLogs |-> [i \in DOMAIN logs \cup {lid} |->
                           IF i = lid THEN newLog ELSE logs[i]],
       logId |-> lid + 1,
       newLog |-> newLog]

\* updateActivityLog that spreads the stored entry over the updates.
updateActivityLog_entryWins(logs, id, updates, t) ==
  IF id \notin DOMAIN logs
  THEN [activityLogs |-> logs, found |-> FALSE]
  ELSE LET updatedLog == Spread(Spread(updates, logs[id]), [updatedAt |-> t])
       IN  [activityLogs |-> [logs EXCEPT ![id] = updatedLog], found |-> TRUE]

\* updateActivityLog that writes the newest entry instead of entry id.
updateActivityLog_newest(logs, id, updates, t) ==
  IF id \notin DOMAIN logs
  THEN [activityLogs |-> logs, found |-> FALSE]
  ELSE LET last == CHOOSE i \in DOMAIN logs : \A j \in DOMAIN logs : j <= i
           updatedLog == Spread(Spread(logs[last], updates), [updatedAt |-> t])
       IN  [activityLogs |-> [logs EXCEPT ![last] = updatedLog], found |-> TRUE]

\* updateActivityLog that looks the entry up under a key the Map never holds.
updateActivityLog_notFound(logs, id, updates, t) ==
  [activityLogs |-> logs, found |-> FALSE]

\* updateActivityLog that rewrites the entry's action text as well.
updateActivityLog_rewritesAction(logs, id, updates, t) ==
  IF id \notin DOMAIN logs THEN [activityLogs |-> logs, found |-> FALSE]
  ELSE LET updatedLog == Spread(Spread(logs[id], updates),
                                [action |-> "Done", updatedAt |-> t])
       IN  [activityLogs |-> [logs EXCEPT ![id] = updatedLog], found |-> TRUE]

\* updateActivityLog that sets the updates under an id the Map lacks.
updateActivityLog_upsert(logs, id, updates, t) ==
  LET entry == IF id \in DOMAIN logs THEN logs[id] ELSE [id |-> id]
      updatedLog == Spread(Spread(entry, updates), [updatedAt |-> t])
  IN  [activityLogs |-> [i \in DOMAIN logs \cup {id} |->
                           IF i = id THEN updatedLog ELSE logs[i]],
       found |-> TRUE]

\* MemStorage.updateActivityLog: [activityLogs, found] after the call; found
\* is FALSE when the method returns false.
updateActivityLog(logs, id, updates, t) ==
  IF id \notin DOMAIN logs
  THEN [activityLogs |-> logs, found |-> FALSE]
  ELSE LET updatedLog == Spread(Spread(logs[id], updates), [updatedAt |-> t])
       IN  [activityLogs |-> [logs EXCEPT ![id] = updatedLog], found |-> TRUE]

\* ------------------------------------------- Instagram automation library
Alphabet == <<"A","B","C","D","E","F","G","H","I","J","K","L","M","N","O","P","Q","R","S","T","U","V","W","X","Y","Z","a","b","c","d","e","f","g","h","i","j","k","l","m","n","o","p","q","r","s","t","u","v","w","x","y","z","0","1","2","3","4","5","6","7","8","9","-","_">>

\* The zero-based position of each character of the alphabet.
AlphabetIndex ==
  [c \in {Alphabet[i] : i \in 1..Len(Alphabet)} |->
     (CHOOSE i \in 1..Len(Alphabet) : Alphabet[i] = c) - 1]

\* alphabet.indexOf(c): zero-based, -1 when absent.
IndexOf(c) == IF c \in DOMAIN AlphabetIndex THEN AlphabetIndex[c] ELSE 0 - 1

\* The loop of shortcodeToMediaId: the Number mediaId after all characters.
MediaIdOf(shortcode) ==
  LET mediaId[i \in 0..Len(shortcode)] ==
        IF i = 0 THEN [neg |-> FALSE, bits |-> <<>>]
        ELSE TimesSixtyFourPlus[mediaId[i - 1], IndexOf(shortcode[i])]
  IN  mediaId[Len(shortcode)]

shortcodeToMediaId(shortcode) == toString[MediaIdOf(shortcode)]

\* Positions where "/p/" starts in the URL.
SlashPSlash(url) ==
  {i \in 1..(Len(url) - 2) : url[i] = "/" /\ url[i + 1] = "p" /\ url[i + 2] = "/"}

\* The prefix of cs before the first character in stops.
Before(cs, stops) ==
  LET hits == {i \in 1..Len(cs) : cs[i] \in stops}
  IN  IF hits = {} THEN cs
      ELSE SubSeq(cs, 1, (CHOOSE i \in hits : \A j \in hits : i <= j) - 1)

\* The extraction written (postUrl.split('/p/')[1] || ''): it never throws,
\* and a URL without '/p/' yields the empty shortcode.
ExtractShortcode_orEmpty(postUrl) ==
  LET at == SlashPSlash(postUrl)
  IN  IF at = {} THEN [ok |-> TRUE, shortcode |-> <<>>]
      ELSE LET first == CHOOSE i \in at : \A j \in at : i <= j
               rest == SubSeq(postUrl, first + 3, Len(postUrl))
           IN  [ok |-> TRUE, shortcode |-> Before(rest, {"/", "?"})]

\* postUrl.split('/p/')[1].split('/')[0].split('?')[0]; ok is FALSE when the
\* expression throws (no '/p/' in the URL, so [1] is undefined).
ExtractShortcode(postUrl) ==
  LET at == SlashPSlash(postUrl)
  IN  IF at = {} THEN [ok |-> FALSE, shortcode |-> <<>>]
      ELSE LET first == CHOOSE i \in at : \A j \in at : i <= j
               rest == SubSeq(postUrl, first + 3, Len(postUrl))
           IN  [ok |-> TRUE, shortcode |-> Before(rest, {"/", "?"})]

Failure(message) == [success |-> FALSE, message |-> message]

\* The switch with the "duplicates" case as its default.
Operation_default(type) ==
  CASE type = "follow" -> "followUser"
    [] type = "unfollow" -> "unfollowUser"
    [] type = "like" -> "likePost"
    [] type = "unlike" -> "unlikePost"
    [] type = "comment" -> "commentPost"
    [] type = "delete_comment" -> "deleteComment"
    [] type = "profile_info" -> "getInstagramProfileInfo"
    [] OTHER -> "removeDuplicateAccounts"

\* The switch with the follow call pasted into the unfollow case.
Operation_unfollowFollows(type) ==
  CASE type \in {"follow", "unfollow"} -> "followUser"
    [] type = "like" -> "likePost"
    [] type = "unlike" -> "unlikePost"
    [] type = "comment" -> "commentPost"
    [] type = "delete_comment" -> "deleteComment"
    [] type = "profile_info" -> "getInstagramProfileInfo"
    [] type = "duplicates" -> "removeDuplicateAccounts"
    [] OTHER -> "none"

\* The operation the dispatcher calls for each request type.
Operation(type) ==
  CASE type = "follow" -> "followUser"
    [] type = "unfollow" -> "unfollowUser"
    [] type = "like" -> "likePost"
    [] type = "unlike" -> "unlikePost"
    [] type = "comment" -> "commentPost"
    [] type = "delete_comment" -> "deleteComment"
    [] type = "profile_info" -> "getInstagramProfileInfo"
    [] type = "duplicates" -> "removeDuplicateAccounts"
    [] OTHER -> "none"

\* What an operation does from its call to its first await: either it
\* returns at once (returned) or it issues its first request (request).
FirstStep(op, b, cookieStr) ==
  LET profile == [method |-> "GET",
                  url |-> "api/v1/users/web_profile_info/?username=" \o b.username,
                  cookie |-> cookieStr]
      sc == ExtractShortcode(b.postUrl)
      mediaId == shortcodeToMediaId(sc.shortcode)
      invalid == [returned |-> TRUE, result |-> Failure("Invalid post URL format")]
      post(url) == [returned |-> FALSE,
                    request |-> [method |-> "POST", url |-> url, cookie |-> cookieStr]]
  IN  CASE op \in {"followUser", "unfollowUser", "getInstagramProfileInfo"} ->
             [returned |-> FALSE, request |-> profile]
        [] op = "likePost" ->
             IF sc.ok THEN post("web/likes/" \o mediaId \o "/like/") ELSE invalid
        [] op = "unlikePost" ->
             IF sc.ok THEN post("web/likes/" \o mediaId \o "/unlike/") ELSE invalid
        [] op = "commentPost" ->
             IF sc.ok THEN post("web/comments/" \o mediaId \o "/add/") ELSE invalid
        [] op = "deleteComment" ->
             post("web/comments/" \o b.commentId \o "/delete/")
        [] op = "removeDuplicateAccounts" ->
             [returned |-> TRUE,
              result |-> [success |-> TRUE,
                          message |-> "Duplicate account check completed. No duplicates found."]]

Returned(result) == [returned |-> TRUE, result |-> result]

\* A statement of a try body throws an Error with this message.
Thrown(message) == [thrown |-> message]

IsThrown(step) == "thrown" \in DOMAIN step

\* An operation without its catch block: what is thrown escapes.
Caught_rethrows(prefix, step) == step

\* catch (error) { return { success: false, message: `${prefix}: ${error.message}` } }
\* around the try body whose outcome is step.
Caught(prefix, step) ==
  IF IsThrown(step) THEN Returned(Failure(prefix \o ": " \o step.thrown)) ELSE step

\* followUser / unfollowUser after the profile response: the rejection of
\* axios, the status check, the read of data.data.user.id, the second
\* request, and the catch block around them.
FriendshipAfterProfile(ing, endpoint, b, cookieStr, resp) ==
  LET mutate(userId) ==
        [returned |-> FALSE,
         request |-> [method |-> "POST",
                      url |-> "api/v1/friendships/" \o endpoint \o "/" \o userId \o "/",
                      cookie |-> cookieStr]]
  IN  Caught("Error " \o ing \o " " \o b.username,
        IF ~AxiosResolves(resp) THEN Thrown(AxiosErrorMessage(resp))
        ELSE IF resp.status # 200
          THEN Returned(Failure("Failed to get profile info for " \o b.username))
        ELSE CASE resp.body = "none" ->
                    Thrown("Cannot read properties of undefined (reading 'user')")
               [] resp.body = "user_null" ->
                    Thrown("Cannot read properties of null (reading 'id')")
               [] resp.body = "user_without_id" -> mutate("undefined")
               [] resp.body = "user_55" -> mutate("55"))

\* An operation after its mutating request: the rejection of axios, success
\* exactly on status 200, and the catch block around them.
MutationResult(ing, okText, failText, resp) ==
  Caught("Error " \o ing,
    IF ~AxiosResolves(resp) THEN Thrown(AxiosErrorMessage(resp))
    ELSE Returned([success |-> resp.status = 200,
                   message |-> IF resp.status = 200 THEN okText ELSE failText]))

\* getInstagramProfileInfo that looks at the status alone.
ProfileInfoResult_statusOnly(b, resp) ==
  IF resp.status = 200
  THEN Returned([success |-> TRUE,
                 message |-> "Successfully retrieved profile info for " \o b.username,
                 data |-> resp.body])
  ELSE Returned(Failure("Failed to retrieve profile info for " \o b.username))

\* getInstagramProfileInfo after its response.
ProfileInfoResult(b, resp) ==
  Caught("Error getting profile info",
    IF ~AxiosResolves(resp) THEN Thrown(AxiosErrorMessage(resp))
    ELSE IF resp.status = 200 /\ resp.body \in {"user_without_id", "user_55"}
      THEN Returned([success |-> TRUE,
                     message |-> "Successfully retrieved profile info for " \o b.username,
                     data |-> resp.body])
      ELSE Returned(Failure("Failed to retrieve profile info for " \o b.username)))

\* What an operation does when the response to its first request arrives.
AfterFirstResponse(op, b, cookieStr, resp) ==
  CASE op = "followUser" -> FriendshipAfterProfile("following", "create", b, cookieStr, resp)
    [] op = "unfollowUser" -> FriendshipAfterProfile("unfollowing", "destroy", b, cookieStr, resp)
    [] op = "likePost" ->
         MutationResult("liking post",
                        "Successfully liked post: " \o Str(b.postUrl),
                        "Failed to like post: " \o Str(b.postUrl), resp)
    [] op = "unlikePost" ->
         MutationResult("unliking post",
                        "Successfully unliked post: " \o Str(b.postUrl),
                        "Failed to unlike post: " \o Str(b.postUrl), resp)
    [] op = "commentPost" ->
         MutationResult("commenting on post",
                        "Successfully commented on post: " \o Str(b.postUrl),
                        "Failed to comment on post: " \o Str(b.postUrl), resp)
    [] op = "deleteComment" ->
         MutationResult("deleting comment",
                        "Successfully deleted comment: " \o b.commentId,
                        "Failed to delete comment: " \o b.commentId, resp)
    [] op = "getInstagramProfileInfo" -> ProfileInfoResult(b, resp)

\* followUser / unfollowUser when the response to the mutation arrives.
AfterSecondResponse(op, b, resp) ==
  IF op = "followUser"
  THEN MutationResult("following " \o b.username,
                      "Successfully followed " \o b.username,
                      "Failed to follow " \o b.username, resp)
  ELSE MutationResult("unfollowing " \o b.username,
                      "Successfully unfollowed " \o b.username,
                      "Failed to unfollow " \o b.username, resp)

\* isLoggedIn of the login checker, which save-cookie requires: an object.
isLoggedIn(resp) ==
  IF resp.status \in {200, 302}
  THEN [success |-> TRUE, isLoggedIn |-> resp.status = 200,
        message |-> IF resp.status = 200 THEN "Cookie is valid and user is logged in"
                    ELSE "Cookie is invalid or expired"]
  ELSE [success |-> FALSE, isLoggedIn |-> FALSE,
        message |-> "Error checking login status: " \o AxiosErrorMessage(resp)]

\* !o is false for every object o.
ObjectTruthy(o) == TRUE

\* maxRedirects of the axios.get of isLoggedIn.
maxRedirects == 0

\* isLoggedIn of the automation library that accepts the redirect as well.
igAutomation_isLoggedIn_redirectToo(resp) == resp.status \in {200, 302}

\* isLoggedIn of the automation library (igAutomation.isLoggedIn) after its
\* request settled: validateStatus accepts 200 alone, every other status and
\* every transport fault rejects, and the catch returns false.
igAutomation_isLoggedIn(resp) ==
  IF resp.status = 200 THEN resp.status = 200 ELSE FALSE

\* ------------------------------------------------------------------- state
VARIABLES
  cookies,        \* MemStorage.cookies, in insertion order
  cookieId,       \* MemStorage.cookieId
  activityLogs,   \* MemStorage.activityLogs
  logId,          \* MemStorage.logId
  now,            \* the clock new Date() reads
  pc,             \* where each /run handler is suspended
  user,           \* req.user.id of each handler
  body,           \* req.body of each handler
  userCookies,    \* the handler's local cookies
  activityLogId,  \* the id of the entry the handler's create returned, 0 if none
  result,         \* the handler's local result
  res,            \* the HTTP response the handler sent
  sent,           \* the requests the handler's operation issued, in order
  called,         \* the operations the handler called, with the cookie passed
  received,       \* what the handler's operation's requests were answered
  saveRes,        \* the HTTP response of the last save-cookie handler
  users,          \* MemStorage.users
  userId,         \* MemStorage.userId
  adminPc,        \* where storage.createAdminUser() is suspended
  register,       \* the /api/auth/register handlers
  session         \* the /check-login handlers

storageVars == <<cookies, cookieId, activityLogs, logId>>
handlerVars == <<pc, user, body, userCookies, activityLogId, result, res, sent,
                 called, received>>
serverVars == <<users, userId, adminPc, register, session>>
vars == <<cookies, cookieId, activityLogs, logId, now, pc, user, body,
          userCookies, activityLogId, result, res, sent, called, received,
          saveRes, users, userId, adminPc, register, session>>

Unset == [unset |-> TRUE]

\* res.status(status).json(payload)
Json(status, payload) == [status |-> status, body |-> payload]

\* The handlers of /api/auth/register and of /check-login, before a request.
Registrants == {1, 2}
Sessions == {1, 2}
IdleRegister == [pc |-> "idle", body |-> Unset, existingUser |-> Unset,
                 user |-> Unset, res |-> Unset]
IdleSession == [pc |-> "idle", cookieString |-> NoValue, requests |-> 0,
                answer |-> Unset, res |-> Unset]

Init ==
  /\ cookies = <<>>
  /\ cookieId = 1
  /\ activityLogs = <<>>
  /\ logId = 1
  /\ now = 0
  /\ pc = [h \in Handlers |-> "idle"]
  /\ user = [h \in Handlers |-> 0]
  /\ body = [h \in Handlers |-> Unset]
  /\ userCookies = [h \in Handlers |-> <<>>]
  /\ activityLogId = [h \in Handlers |-> 0]
  /\ result = [h \in Handlers |-> Unset]
  /\ res = [h \in Handlers |-> Unset]
  /\ sent = [h \in Handlers |-> <<>>]
  /\ called = [h \in Handlers |-> <<>>]
  /\ received = [h \in Handlers |-> <<>>]
  /\ saveRes = Unset
  /\ users = <<>>
  /\ userId = 1
  /\ adminPc = "hashing"
  /\ register = [r \in Registrants |-> IdleRegister]
  /\ session = [s \in Sessions |-> IdleSession]

\* Time passes.
Tick ==
  /\ now < MaxClock
  /\ now' = now + 1
  /\ UNCHANGED <<saveRes, serverVars, storageVars, handlerVars>>

\* POST /api/instagram/save-cookie by user u, answered resp by the platform.
SaveCookie(u, name, cookieString, resp) ==
  /\ cookieId <= MaxCookies
  /\ IF ~Truthy(name) \/ ~Truthy(cookieString)
     THEN /\ saveRes' = Json(400, [message |-> "Name and cookie string are required"])
          /\ UNCHANGED <<cookies, cookieId>>
     ELSE LET validCookie == isLoggedIn(resp)
          IN  IF ~ObjectTruthy(validCookie)
              THEN /\ saveRes' = Json(400, Failure("Invalid or expired cookie"))
                   /\ UNCHANGED <<cookies, cookieId>>
              ELSE LET made == createCookie(cookies, cookieId,
                                 [userId |-> u, name |-> name,
                                  cookieString |-> cookieString], now)
                   IN  /\ cookies' = made.cookies
                       /\ cookieId' = made.cookieId
                       /\ saveRes' = Json(200, [success |-> TRUE,
                                                message |-> "Cookie saved successfully",
                                                cookie |-> made.newCookie])
  /\ UNCHANGED <<serverVars, activityLogs, logId, now, handlerVars>>

\* ------------------------------------------------- router.post("/run")
\* The field checks with the comment case written !postUrl && !commentText.
RequiredFieldsMessage_and(b) ==
  CASE b.type \in {"follow", "unfollow", "profile_info"} /\ ~Truthy(b.username) ->
         "Username is required"
    [] b.type \in {"like", "unlike"} /\ ~TruthyUrl(b.postUrl) ->
         "Post URL is required"
    [] b.type = "comment" /\ (~TruthyUrl(b.postUrl) /\ ~Truthy(b.commentText)) ->
         "Post URL and comment text are required"
    [] b.type = "delete_comment" /\ ~Truthy(b.commentId) ->
         "Comment ID is required"
    [] OTHER -> ""

\* The message of the 400 the switch answers with, "" when the fields the
\* request type requires are present.
RequiredFieldsMessage(b) ==
  CASE b.type \in {"follow", "unfollow", "profile_info"} /\ ~Truthy(b.username) ->
         "Username is required"
    [] b.type \in {"like", "unlike"} /\ ~TruthyUrl(b.postUrl) ->
         "Post URL is required"
    [] b.type = "comment" /\ (~TruthyUrl(b.postUrl) \/ ~Truthy(b.commentText)) ->
         "Post URL and comment text are required"
    [] b.type = "delete_comment" /\ ~Truthy(b.commentId) ->
         "Comment ID is required"
    [] OTHER -> ""

\* logEntry.action: "Pending" until a case of the switch sets it.
ActionText(b) ==
  CASE b.type = "follow" -> "Followed @" \o b.username
    [] b.type = "unfollow" -> "Unfollowed @" \o b.username
    [] b.type = "like" -> "Liked post: " \o Str(b.postUrl)
    [] b.type = "unlike" -> "Unliked post: " \o Str(b.postUrl)
    [] b.type = "comment" -> "Commented on post: " \o Str(b.postUrl)
    [] b.type = "delete_comment" -> "Deleted comment: " \o b.commentId
    [] b.type = "profile_info" -> "Retrieved profile info: @" \o b.username
    [] b.type = "duplicates" -> "Removed duplicate accounts"
    [] OTHER -> "Pending"

\* The logEntry object built before the switch.
LogEntry(u, b) ==
  [userId |-> u, type |-> b.type,
   accountUsername |-> IF Truthy(b.username) THEN b.username ELSE "Unknown",
   action |-> "Pending", status |-> "pending"]

\* The status the handler writes for a result.
StatusOf(r) == IF r.success THEN "success" ELSE "failed"

\* A request arrives; the handler reads the body, calls getCookiesByUserId
\* and awaits it.
Start(h, u, b) ==
  /\ pc[h] = "idle"
  /\ user' = [user EXCEPT ![h] = u]
  /\ body' = [body EXCEPT ![h] = b]
  /\ userCookies' = [userCookies EXCEPT ![h] = getCookiesByUserId(cookies, u)]
  /\ pc' = [pc EXCEPT ![h] = "cookies"]
  /\ UNCHANGED <<saveRes, serverVars, storageVars, now, activityLogId, result, res, sent, called, received>>

\* The handler with the switch's field checks ahead of the empty check.
Check_validatesFirst(h) ==
  /\ pc[h] = "cookies"
  /\ IF Operation(body[h].type) # "none" /\ RequiredFieldsMessage(body[h]) # ""
     THEN /\ res' = [res EXCEPT ![h] =
                       Json(400, Failure(RequiredFieldsMessage(body[h])))]
          /\ pc' = [pc EXCEPT ![h] = "done"]
          /\ UNCHANGED <<storageVars, activityLogId, result>>
     ELSE IF Len(userCookies[h]) = 0
     THEN /\ res' = [res EXCEPT ![h] = Json(400,
                 Failure("No cookies available. Please add an account or cookie first."))]
          /\ pc' = [pc EXCEPT ![h] = "done"]
          /\ UNCHANGED <<storageVars, activityLogId, result>>
     ELSE /\ result' = [result EXCEPT ![h] = Failure("Unknown automation type")]
          /\ IF Operation(body[h].type) = "none"
             THEN /\ res' = [res EXCEPT ![h] = Json(200, result'[h])]
                  /\ pc' = [pc EXCEPT ![h] = "done"]
                  /\ UNCHANGED <<storageVars, activityLogId>>
             ELSE LET logEntry == [LogEntry(user[h], body[h]) EXCEPT
                                     !.action = ActionText(body[h])]
                      made == createActivityLog(activityLogs, logId, logEntry, now)
                  IN  /\ activityLogs' = made.activityLogs
                      /\ logId' = made.logId
                      /\ activityLogId' = [activityLogId EXCEPT ![h] = made.newLog.id]
                      /\ pc' = [pc EXCEPT ![h] = "created"]
                      /\ UNCHANGED <<cookies, cookieId, res>>
  /\ UNCHANGED <<saveRes, serverVars, now, user, body, userCookies, sent, called, received>>

\* The cookie lookup has resolved: the empty check, the default result, the
\* switch up to the return of a 400, the fall-through of an unhandled type,
\* or the call of createActivityLog, which the handler awaits.
Check(h) ==
  /\ pc[h] = "cookies"
  /\ IF Len(userCookies[h]) = 0
     THEN /\ res' = [res EXCEPT ![h] = Json(400,
                 Failure("No cookies available. Please add an account or cookie first."))]
          /\ pc' = [pc EXCEPT ![h] = "done"]
          /\ UNCHANGED <<storageVars, activityLogId, result>>
     ELSE /\ result' = [result EXCEPT ![h] = Failure("Unknown automation type")]
          /\ IF Operation(body[h].type) = "none"
             THEN /\ res' = [res EXCEPT ![h] = Json(200, result'[h])]
                  /\ pc' = [pc EXCEPT ![h] = "done"]
                  /\ UNCHANGED <<storageVars, activityLogId>>
             ELSE IF RequiredFieldsMessage(body[h]) # ""
             THEN /\ res' = [res EXCEPT ![h] =
                               Json(400, Failure(RequiredFieldsMessage(body[h])))]
                  /\ pc' = [pc EXCEPT ![h] = "done"]
                  /\ UNCHANGED <<storageVars, activityLogId>>
             ELSE LET logEntry == [LogEntry(user[h], body[h]) EXCEPT
                                     !.action = ActionText(body[h])]
                      made == createActivityLog(activityLogs, logId, logEntry, now)
                  IN  /\ activityLogs' = made.activityLogs
                      /\ logId' = made.logId
                      /\ activityLogId' = [activityLogId EXCEPT ![h] = made.newLog.id]
                      /\ pc' = [pc EXCEPT ![h] = "created"]
                      /\ UNCHANGED <<cookies, cookieId, res>>
  /\ UNCHANGED <<saveRes, serverVars, now, user, body, userCookies, sent, called, received>>

\* cookies[0].cookieString
cookieValue(h) == userCookies[h][1].cookieString

\* catch (error) of the handler: the 500 answer, and nothing else runs.
CatchBlock(h, error) ==
  /\ res' = [res EXCEPT ![h] = Json(500,
               [success |-> FALSE, message |-> "Error running automation",
                error |-> error])]
  /\ pc' = [pc EXCEPT ![h] = "done"]

\* The log entry exists: the handler calls the operation of its type, which
\* runs to its first await (a request is on the wire) or returns at once.
Invoke(h) ==
  /\ pc[h] = "created"
  /\ called' = [called EXCEPT ![h] =
                  Append(@, [op |-> Operation(body[h].type), cookieStr |-> cookieValue(h)])]
  /\ \E step \in {FirstStep(Operation(body[h].type), body[h], cookieValue(h))} :
         IF step.returned
         THEN /\ result' = [result EXCEPT ![h] = step.result]
              /\ pc' = [pc EXCEPT ![h] = "returned"]
              /\ UNCHANGED sent
         ELSE /\ sent' = [sent EXCEPT ![h] = Append(@, step.request)]
              /\ pc' = [pc EXCEPT ![h] = "request1"]
              /\ UNCHANGED result
  /\ UNCHANGED <<saveRes, serverVars, storageVars, now, user, body, userCookies, activityLogId, res, received>>

\* The first request is answered (or faults): the operation returns, issues
\* its second request, or lets an error escape to the handler.
Response1(h, resp) ==
  /\ pc[h] = "request1"
  /\ received' = [received EXCEPT ![h] = Append(@, resp)]
  /\ \E step \in {AfterFirstResponse(Operation(body[h].type), body[h],
                                      cookieValue(h), resp)} :
         IF IsThrown(step)
         THEN /\ CatchBlock(h, step.thrown)
              /\ UNCHANGED <<result, sent>>
         ELSE IF step.returned
         THEN /\ result' = [result EXCEPT ![h] = step.result]
              /\ pc' = [pc EXCEPT ![h] = "returned"]
              /\ UNCHANGED <<sent, res>>
         ELSE /\ sent' = [sent EXCEPT ![h] = Append(@, step.request)]
              /\ pc' = [pc EXCEPT ![h] = "request2"]
              /\ UNCHANGED <<result, res>>
  /\ UNCHANGED <<saveRes, serverVars, storageVars, now, user, body, userCookies, activityLogId, called>>

\* The follow / unfollow mutation is answered (or faults).
Response2(h, resp) ==
  /\ pc[h] = "request2"
  /\ received' = [received EXCEPT ![h] = Append(@, resp)]
  /\ \E step \in {AfterSecondResponse(Operation(body[h].type), body[h], resp)} :
         IF IsThrown(step)
         THEN /\ CatchBlock(h, step.thrown)
              /\ UNCHANGED result
         ELSE /\ result' = [result EXCEPT ![h] = step.result]
              /\ pc' = [pc EXCEPT ![h] = "returned"]
              /\ UNCHANGED res
  /\ UNCHANGED <<saveRes, serverVars, storageVars, now, user, body, userCookies, activityLogId, sent, called>>

\* The update aimed at the entry created last (logId - 1) instead of the id
\* the handler's own create returned.
Update_lastCreated(h) ==
  /\ pc[h] = "returned"
  /\ activityLogs' = updateActivityLog(activityLogs, logId - 1,
                                        [status |-> StatusOf(result[h])], now).activityLogs
  /\ pc' = [pc EXCEPT ![h] = "updated"]
  /\ UNCHANGED <<saveRes, serverVars, cookies, cookieId, logId, now, user, body, userCookies,
                 activityLogId, result, res, sent, called, received>>

\* The operation has returned its result: the handler calls
\* updateActivityLog with the status of the result and awaits it.
Update(h) ==
  /\ pc[h] = "returned"
  /\ activityLogs' = updateActivityLog(activityLogs, activityLogId[h],
                                        [status |-> StatusOf(result[h])], now).activityLogs
  /\ pc' = [pc EXCEPT ![h] = "updated"]
  /\ UNCHANGED <<saveRes, serverVars, cookies, cookieId, logId, now, user, body, userCookies,
                 activityLogId, result, res, sent, called, received>>

\* res.json(result) sent as soon as the operation returned, without the
\* update of the log entry.
Respond_beforeUpdate(h) ==
  /\ pc[h] \in {"returned", "updated"}
  /\ res' = [res EXCEPT ![h] = Json(200, result[h])]
  /\ pc' = [pc EXCEPT ![h] = "done"]
  /\ UNCHANGED <<saveRes, serverVars, storageVars, now, user, body, userCookies, activityLogId, result,
                 sent, called, received>>

\* break; res.json(result)
Respond(h) ==
  /\ pc[h] = "updated"
  /\ res' = [res EXCEPT ![h] = Json(200, result[h])]
  /\ pc' = [pc EXCEPT ![h] = "done"]
  /\ UNCHANGED <<saveRes, serverVars, storageVars, now, user, body, userCookies, activityLogId, result,
                 sent, called, received>>

\* The requests of the runs with concurrent handlers: one of each shape of
\* the handler's control flow (two requests, one request, none, a 400, the
\* fall-through).
ConcurrentRequests ==
  {Req("follow", "alice", NoUrl, NoValue, NoValue),
   Req("like", NoValue, GoodUrl, NoValue, NoValue),
   Req("comment", NoValue, BadUrl, "nice", NoValue),
   Req("profile_info", NoValue, NoUrl, NoValue, NoValue),
   Req("share", "alice", NoUrl, NoValue, NoValue)}

\* The steps of the handlers hs, serving requests taken from bodies.
Dispatch(hs, bodies) ==
  \/ \E u \in Users, name \in CookieNames, cs \in CookieStrings, resp \in Responses :
        SaveCookie(u, name, cs, resp)
  \/ \E h \in hs, u \in Users, b \in bodies : Start(h, u, b)
  \/ \E h \in hs : Check(h)
  \/ \E h \in hs : Invoke(h)
  \/ \E h \in hs, resp \in Responses : Response1(h, resp)
  \/ \E h \in hs, resp \in Responses : Response2(h, resp)
  \/ \E h \in hs : Update(h)
  \/ \E h \in hs : Respond(h)

\* One dispatch of any request, with time passing.
Next == Tick \/ Dispatch({1}, Requests)

Spec == Init /\ [][Next]_vars

\* Concurrent dispatches.
NextConcurrent == Dispatch(Handlers, ConcurrentRequests)

SpecConcurrent == Init /\ [][NextConcurrent]_vars

\* The awaited operation rejects instead of returning a result: the catch
\* block of the handler answers 500 and nothing else runs.
Rejects(h, fault) ==
  /\ pc[h] = "request1"
  /\ CatchBlock(h, fault)
  /\ UNCHANGED <<saveRes, serverVars, storageVars, now, user, body, userCookies, activityLogId, result,
                 sent, called, received>>

\* One dispatch against a Remote Action Client whose operations may raise.
NextRejecting == Next \/ \E fault \in {"boom"} : Rejects(1, fault)

SpecRejecting == Init /\ [][NextRejecting]_vars

\* Short codes of posts: none, short ones, ones of ten and eleven characters
\* (the length of the platform's codes), one with a character outside the
\* alphabet.
ShortCodes ==
  {<<>>,
   <<"A","B","C","1","2","3">>,
   <<"B","A","A","A","A","A","A","A","A","A">>,
   <<"B","A","A","A","A","A","A","A","A","B">>,
   <<"C","x","Y","z","0","9","-","_","A","b","B">>,
   <<"B",".">>}

\* The URL of the post with a short code.
PostUrlOf(code) == <<"/","p","/">> \o code \o <<"/">>

LikeRequests == {Req("like", NoValue, PostUrlOf(code), NoValue, NoValue) : code \in ShortCodes}

LikeResponses == {[status |-> 200, body |-> "none"], [status |-> 0, body |-> "none"]}

\* Concurrent likes by one user.
NextLikes ==
  \/ \E name \in CookieNames, cs \in CookieStrings, resp \in Responses :
        SaveCookie(1, name, cs, resp)
  \/ \E h \in Handlers, b \in LikeRequests : Start(h, 1, b)
  \/ \E h \in Handlers : Check(h)
  \/ \E h \in Handlers : Invoke(h)
  \/ \E h \in Handlers, resp \in LikeResponses : Response1(h, resp)
  \/ \E h \in Handlers : Update(h)
  \/ \E h \in Handlers : Respond(h)

SpecLikes == Init /\ [][NextLikes]_vars

\* One dispatch, with a store that may lose an entry between its creation
\* and its terminal update (the storage inconsistency of the error-handling
\* design; no code of the store removes an entry).
LosesEntry(i) ==
  /\ i \in DOMAIN activityLogs
  /\ activityLogs[i].status = "pending"
  /\ activityLogs' = [j \in DOMAIN activityLogs \ {i} |-> activityLogs[j]]
  /\ UNCHANGED <<saveRes, serverVars, cookies, cookieId, logId, now, handlerVars>>

NextLosing == Next \/ \E i \in 1..Cardinality(Handlers) : LosesEntry(i)

SpecLosing == Init /\ [][NextLosing]_vars

\* Requests whose operation issues no request.
LocalRequests == {Req("duplicates", NoValue, NoUrl, NoValue, NoValue)}

\* Concurrent dispatches that only touch the store, with time passing.
NextLogging ==
  \/ Tick
  \/ \E u \in Users, name \in CookieNames, cs \in CookieStrings, resp \in Responses :
        SaveCookie(u, name, cs, resp)
  \/ \E h \in Handlers, u \in Users, b \in LocalRequests : Start(h, u, b)
  \/ \E h \in Handlers : Check(h)
  \/ \E h \in Handlers : Invoke(h)
  \/ \E h \in Handlers : Update(h)
  \/ \E h \in Handlers : Respond(h)

SpecLogging == Init /\ [][NextLogging]_vars

\* storage.deleteCookie(id), called by a collaborator of the dispatcher
\* (no route of the server calls it).
DeleteCookie(id) ==
  /\ cookies' = deleteCookie(cookies, id).cookies
  /\ UNCHANGED <<cookieId, activityLogs, logId, now, handlerVars, saveRes, serverVars>>

\* Cookie strings that tell the users' credentials apart.
CredentialStrings == CookieStrings \cup {"csrftoken=def456; sessionid=uvw"}

\* Concurrent dispatches while credentials are saved and deleted.
NextCredentials ==
  \/ Tick
  \/ \E u \in Users, name \in CookieNames, cs \in CredentialStrings :
        SaveCookie(u, name, cs, [status |-> 200, body |-> "none"])
  \/ \E id \in 1..MaxCookies : DeleteCookie(id)
  \/ \E h \in Handlers, u \in Users, b \in LocalRequests : Start(h, u, b)
  \/ \E h \in Handlers : Check(h)
  \/ \E h \in Handlers : Invoke(h)
  \/ \E h \in Handlers : Update(h)
  \/ \E h \in Handlers : Respond(h)

SpecCredentials == Init /\ [][NextCredentials]_vars

\* req.body of POST /api/auth/register.
RegisterRequests ==
  {[username |-> u, email |-> u \o "@example.com", password |-> "secret"] :
      u \in {NoValue, "bob", "david"}}

\* The salt crypto.randomBytes draws.
Salts == {"5a17"}

\* The hash of the default admin's password resolves: createAdminUser sets
\* the admin under id 1 and advances userId.
AdminHashed ==
  /\ adminPc = "hashing"
  /\ \E salt \in Salts :
        LET made == createAdminUser(users, userId, hashPassword("david@@@", salt), now)
        IN  /\ users' = made.users
            /\ userId' = made.userId
  /\ adminPc' = "done"
  /\ UNCHANGED <<storageVars, now, handlerVars, saveRes, register, session>>

\* POST /api/auth/register arrives: a missing field is answered 400;
\* otherwise getUserByUsername runs and the handler awaits its result.
Register(r, b) ==
  /\ register[r].pc = "idle"
  /\ IF ~Truthy(b.username) \/ ~Truthy(b.email) \/ ~Truthy(b.password)
     THEN register' = [register EXCEPT ![r] =
             [@ EXCEPT !.pc = "done", !.body = b,
                       !.res = Json(400, [message |-> "All fields are required"])]]
     ELSE register' = [register EXCEPT ![r] =
             [@ EXCEPT !.pc = "lookedUp", !.body = b,
                       !.existingUser = getUserByUsername(users, b.username)]]
  /\ UNCHANGED <<storageVars, now, handlerVars, saveRes, users, userId, adminPc, session>>

\* The lookup is back: a taken username is answered 400; otherwise
\* hashPassword starts and the handler awaits it.
RegisterCheck(r) ==
  /\ register[r].pc = "lookedUp"
  /\ IF register[r].existingUser # Undefined
     THEN register' = [register EXCEPT ![r] =
             [@ EXCEPT !.pc = "done",
                       !.res = Json(400, [message |-> "Username already exists"])]]
     ELSE register' = [register EXCEPT ![r] = [@ EXCEPT !.pc = "hashing"]]
  /\ UNCHANGED <<storageVars, now, handlerVars, saveRes, users, userId, adminPc, session>>

\* The hash resolves: createUser runs and the handler awaits it.
RegisterHashed(r) ==
  /\ register[r].pc = "hashing"
  /\ \E salt \in Salts :
        LET made == createUser(users, userId,
                      [username |-> register[r].body.username,
                       email |-> register[r].body.email,
                       password |-> hashPassword(register[r].body.password, salt),
                       role |-> "user"], now)
        IN  /\ users' = made.users
            /\ userId' = made.userId
            /\ register' = [register EXCEPT ![r] =
                              [@ EXCEPT !.pc = "created", !.user = made.user]]
  /\ UNCHANGED <<storageVars, now, handlerVars, saveRes, adminPc, session>>

\* req.login(user, ...) and the answer of the registration.
RegisterLogin(r) ==
  /\ register[r].pc = "created"
  /\ register' = [register EXCEPT ![r] =
        [@ EXCEPT !.pc = "done",
                  !.res = Json(200, [message |-> "Registration successful",
                                     user |-> [register[r].user EXCEPT
                                                 !.password = Undefined]])]]
  /\ UNCHANGED <<storageVars, now, handlerVars, saveRes, users, userId, adminPc, session>>

\* Concurrent registrations while the default admin is being created.
NextAccounts ==
  \/ Tick
  \/ AdminHashed
  \/ \E r \in Registrants, b \in RegisterRequests : Register(r, b)
  \/ \E r \in Registrants : RegisterCheck(r)
  \/ \E r \in Registrants : RegisterHashed(r)
  \/ \E r \in Registrants : RegisterLogin(r)

SpecAccounts == Init /\ [][NextAccounts]_vars

\* What the platform (or the transport) answers to the login check.
LoginResponses == {[status |-> st, body |-> "none"] : st \in {0, 200, 201, 302, 404}}

\* POST /check-login arrives: without a cookie string the handler answers
\* 400; otherwise it calls igAutomation.isLoggedIn, whose request goes out.
CheckLogin(s, cookieString) ==
  /\ session[s].pc = "idle"
  /\ IF ~Truthy(cookieString)
     THEN session' = [session EXCEPT ![s] =
                        [@ EXCEPT !.pc = "done",
                                  !.res = Json(400, Failure("Cookie string is required"))]]
     ELSE session' = [session EXCEPT ![s] =
                        [@ EXCEPT !.pc = "requested", !.cookieString = cookieString,
                                  !.requests = 1]]
  /\ UNCHANGED <<storageVars, now, handlerVars, saveRes, users, userId, adminPc, register>>

\* The request of isLoggedIn is answered (or faults).  axios follows a
\* redirect only while fewer than maxRedirects were followed; otherwise the
\* answer settles the request and the handler sends its response.
LoginAnswer(s, resp) ==
  /\ session[s].pc = "requested"
  /\ IF resp.status \in 300..399 /\ session[s].requests <= maxRedirects
     THEN session' = [session EXCEPT ![s] = [@ EXCEPT !.requests = @ + 1]]
     ELSE LET isValid == igAutomation_isLoggedIn(resp)
          IN  session' = [session EXCEPT ![s] =
                [@ EXCEPT !.pc = "done", !.answer = resp,
                          !.res = Json(200,
                             [success |-> TRUE, isLoggedIn |-> isValid,
                              message |-> IF isValid THEN "Cookie is valid"
                                          ELSE "Cookie is invalid or expired"])]]
  /\ UNCHANGED <<storageVars, now, handlerVars, saveRes, users, userId, adminPc, register>>

\* Login checks and cookie saves, in any order.
NextSessions ==
  \/ \E u \in Users, name \in {NoValue} \cup CookieNames, cs \in CookieStrings,
        resp \in LoginResponses : SaveCookie(u, name, cs, resp)
  \/ \E s \in Sessions, cs \in {NoValue} \cup CookieStrings : CheckLogin(s, cs)
  \/ \E s \in Sessions, resp \in LoginResponses : LoginAnswer(s, resp)

SpecSessions == Init /\ [][NextSessions]_vars

\* A step of handler h after its request arrived: a segment of the handler
\* resumes, or a request it has on the wire is answered (or faults).
Resume(h) ==
  \/ Check(h)
  \/ Invoke(h)
  \/ \E resp \in Responses : Response1(h, resp)
  \/ \E resp \in Responses : Response2(h, resp)
  \/ Update(h)
  \/ Respond(h)

\* One dispatch whose handler is resumed whenever it can run and whose
\* requests on the wire are eventually answered.
FairSpec == Spec /\ WF_vars(Resume(1))

\* ------------------------------------------------------------------ claims
Terminal == {"success", "failed"}

\* The handler created a log entry (its create returned an id).
Logged(h) == activityLogId[h] # 0

\* The handler's own entry in the store.
EntryOf(h) == activityLogs[activityLogId[h]]

\* The store holds a credential of user u.
HasCredential(u) == \E i \in 1..Len(cookies) : cookies[i].userId = u

\* C1: a dispatch that reached the remote call and returned ends with its log
\* entry at success when the operation's result is a success and at failed
\* when it is a failure, and answers the caller with that same result.
C1_StatusMirrorsResult ==
  \A h \in Handlers :
    (pc[h] = "done" /\ Logged(h)) =>
      /\ activityLogId[h] \in DOMAIN activityLogs
      /\ result[h].success => EntryOf(h).status = "success"
      /\ ~result[h].success => EntryOf(h).status = "failed"
      /\ res[h] = [status |-> 200, body |-> result[h]]

C1_Witness ==
  \E h \in Handlers :
    /\ pc[h] = "done" /\ Logged(h) /\ body[h].type = "follow"
    /\ result[h].success /\ EntryOf(h).status = "success"
    /\ Len(sent[h]) = 2

\* C2: the log holds exactly one entry per dispatch that reached log
\* creation: as many entries as such dispatches, each dispatch with an id of
\* its own, under which the store holds the entry that dispatch created.
C2_OneEntryPerDispatch ==
  /\ Cardinality(DOMAIN activityLogs) = Cardinality({h \in Handlers : Logged(h)})
  /\ \A h \in Handlers : Logged(h) =>
        /\ activityLogId[h] \in DOMAIN activityLogs
        /\ EntryOf(h).id = activityLogId[h]
        /\ EntryOf(h).userId = user[h]
        /\ EntryOf(h).type = body[h].type
  /\ \A g, h \in Handlers : (Logged(g) /\ Logged(h) /\ g # h) =>
        activityLogId[g] # activityLogId[h]

C2_Witness ==
  /\ Cardinality(DOMAIN activityLogs) = 2
  /\ pc[1] = "request1" /\ pc[2] = "request1"
  /\ body[1].type # body[2].type

\* C4: every entry enters the log pending, and the only changes of status an
\* entry ever makes are pending to success and pending to failed; entries
\* are never removed.
C4_OnlyPendingToTerminal ==
  [][/\ \A i \in DOMAIN activityLogs :
          /\ i \in DOMAIN activityLogs'
          /\ \/ activityLogs'[i].status = activityLogs[i].status
             \/ /\ activityLogs[i].status = "pending"
                /\ activityLogs'[i].status \in Terminal
     /\ \A i \in DOMAIN activityLogs' \ DOMAIN activityLogs :
          activityLogs'[i].status = "pending"]_vars

C4_Witness ==
  /\ 1 \in DOMAIN activityLogs /\ 2 \in DOMAIN activityLogs
  /\ activityLogs[2].status = "success"
  /\ activityLogs[1].status = "failed"

\* C3 (as claimed): when the operation a dispatch awaits raises, the
\* dispatch still ends with its log entry at failed, not pending, and
\* answers with a failure carrying the fault's message.
C3_RaiseRecordedAsFailed ==
  \A h \in Handlers :
    (pc[h] = "done" /\ Logged(h) /\ res[h].status = 500) =>
      /\ EntryOf(h).status = "failed"
      /\ ~res[h].body.success
      /\ res[h].body.error = "boom"

LogIds == 1..Cardinality(Handlers)

\* C5: under fair scheduling of the handler and a remote platform that
\* answers (or faults on) every request, every entry of the log eventually
\* has a terminal status.
C5_PendingReachesTerminal ==
  \A i \in LogIds :
    (i \in DOMAIN activityLogs) ~>
      (i \in DOMAIN activityLogs /\ activityLogs[i].status \in Terminal)

C5_Witness ==
  \E h \in Handlers :
    /\ pc[h] = "updated" /\ Logged(h)
    /\ body[h].type = "unlike"
    /\ EntryOf(h).status = "failed"

\* The request lacks a field its kind requires.
MissingRequired(b) ==
  \/ b.type \in {"follow", "unfollow", "profile_info"} /\ b.username = NoValue
  \/ b.type \in {"like", "unlike"} /\ b.postUrl = NoUrl
  \/ b.type = "comment" /\ (b.postUrl = NoUrl \/ b.commentText = NoValue)
  \/ b.type = "delete_comment" /\ b.commentId = NoValue

\* The validation failure that names the fields the kind requires.
ValidationFailure(b) ==
  [status |-> 400,
   body |-> [success |-> FALSE,
             message |-> CASE b.type \in {"follow", "unfollow", "profile_info"} ->
                                "Username is required"
                           [] b.type \in {"like", "unlike"} -> "Post URL is required"
                           [] b.type = "comment" -> "Post URL and comment text are required"
                           [] b.type = "delete_comment" -> "Comment ID is required"]]

NoCredentialFailure ==
  [status |-> 400,
   body |-> [success |-> FALSE,
             message |-> "No cookies available. Please add an account or cookie first."]]

\* C6 (as claimed): every request missing a required field ends with no log
\* entry, no remote request, and the validation failure naming the field.
C6_MissingFieldAlwaysValidationFailure ==
  \A h \in Handlers :
    (pc[h] = "done" /\ MissingRequired(body[h])) =>
      /\ ~Logged(h) /\ DOMAIN activityLogs = {} /\ sent[h] = <<>>
      /\ res[h] = ValidationFailure(body[h])

\* C6 (amended): every request missing a required field ends with no log
\* entry and no remote request; its answer is the validation failure naming
\* the field when the lookup found a credential of the user, and the
\* no-credential failure when it found none.
C6_MissingFieldRejected ==
  \A h \in Handlers :
    (pc[h] = "done" /\ MissingRequired(body[h])) =>
      /\ ~Logged(h) /\ DOMAIN activityLogs = {} /\ sent[h] = <<>>
      /\ res[h] = IF Len(userCookies[h]) > 0
                   THEN ValidationFailure(body[h])
                   ELSE NoCredentialFailure

C6_Witness ==
  \E h \in Handlers :
    /\ pc[h] = "done" /\ body[h].type = "comment"
    /\ body[h].postUrl # NoUrl /\ body[h].commentText = NoValue
    /\ Len(userCookies[h]) > 0
    /\ res[h].status = 400

\* The lookup a handler starts with finds no credential exactly when the
\* store holds none of the user.
LookupIsOfTheUser ==
  \A h \in Handlers :
    (pc[h] = "idle" /\ pc'[h] = "cookies") =>
      (Len(userCookies'[h]) = 0 <=> ~HasCredential(user'[h]))

\* C7 (as claimed): a request missing a required field, from a user without
\* a credential, is answered with the validation failure.
C7_ValidationBeforeCredential ==
  \A h \in Handlers :
    (pc[h] = "done" /\ MissingRequired(body[h]) /\ Len(userCookies[h]) = 0) =>
      res[h] = ValidationFailure(body[h])

\* C7 (amended): the credential is looked up before the fields are
\* validated: a request missing a required field, from a user without a
\* credential, is answered with the no-credential failure, and no answer is
\* given before the lookup.
C7_CredentialBeforeValidation ==
  /\ [](\A h \in Handlers :
          /\ (pc[h] = "done" /\ MissingRequired(body[h]) /\ Len(userCookies[h]) = 0) =>
                res[h] = NoCredentialFailure
          /\ pc[h] \in {"idle", "cookies"} => res[h] = Unset)
  /\ [][LookupIsOfTheUser]_vars

C7_Witness ==
  \E h \in Handlers :
    /\ pc[h] = "done" /\ body[h].type = "follow" /\ body[h].username = NoValue
    /\ ~HasCredential(user[h])
    /\ res[h] = NoCredentialFailure

\* C8: a dispatch of a user of whom the store holds no credential is
\* answered with the no-credential failure, issues no remote request and
\* leaves the log as it was, whatever the request.
C8_NoCredentialNoDispatch ==
  /\ [](\A h \in Handlers :
          (pc[h] = "done" /\ Len(userCookies[h]) = 0) =>
             /\ res[h] = NoCredentialFailure
             /\ ~Logged(h) /\ sent[h] = <<>>)
  /\ [][LookupIsOfTheUser]_vars
  /\ [][\A h \in Handlers :
          (pc'[h] # pc[h] /\ Len(userCookies'[h]) = 0) =>
             activityLogs' = activityLogs]_vars

C8_Witness ==
  \E h \in Handlers :
    /\ pc[h] = "done" /\ body[h].type = "like" /\ body[h].postUrl = GoodUrl
    /\ ~HasCredential(user[h])
    /\ \E u \in Users : HasCredential(u)
    /\ res[h] = NoCredentialFailure

SevenKinds ==
  {"follow", "unfollow", "like", "unlike", "comment", "delete_comment", "profile_info"}

UnknownTypeAnswer ==
  [status |-> 200, body |-> [success |-> FALSE, message |-> "Unknown automation type"]]

\* C9 (as claimed): a request of a kind outside the seven kinds is answered
\* "Unknown automation type", with no log entry and no operation invoked.
C9_OutsideSevenIsUnknown ==
  \A h \in Handlers :
    (pc[h] = "done" /\ body[h].type \notin SevenKinds) =>
      /\ res[h] = UnknownTypeAnswer
      /\ ~Logged(h) /\ DOMAIN activityLogs = {} /\ sent[h] = <<>>

\* C9 (amended): a request of a kind outside the seven kinds and other than
\* "duplicates", from a user with a stored credential, is answered "Unknown
\* automation type", with no log entry and no operation invoked.
C9_UnhandledIsUnknown ==
  \A h \in Handlers :
    (/\ pc[h] = "done"
     /\ body[h].type \notin SevenKinds \cup {"duplicates"}
     /\ Len(userCookies[h]) > 0) =>
      /\ res[h] = UnknownTypeAnswer
      /\ ~Logged(h) /\ DOMAIN activityLogs = {} /\ sent[h] = <<>>

C9_Witness ==
  \E h \in Handlers :
    /\ pc[h] = "done" /\ body[h].type = "share"
    /\ Len(userCookies[h]) > 0
    /\ res[h] = UnknownTypeAnswer

\* The URL is present and holds no "/p/".
Malformed(url) ==
  /\ url # NoUrl
  /\ ~\E i \in 1..(Len(url) - 2) : url[i] = "/" /\ url[i + 1] = "p" /\ url[i + 2] = "/"

\* C10 (as claimed): a like, unlike or comment whose post URL is malformed
\* ends as a failure with no remote request and no log entry.
C10_MalformedUrlNotLogged ==
  \A h \in Handlers :
    (/\ pc[h] = "done"
     /\ body[h].type \in {"like", "unlike", "comment"}
     /\ Malformed(body[h].postUrl)) =>
      /\ ~res[h].body.success
      /\ sent[h] = <<>>
      /\ ~Logged(h) /\ DOMAIN activityLogs = {}

\* C10 (amended): a like, unlike or comment with its required fields and a
\* malformed post URL, from a user with a stored credential, is rejected by
\* the operation and not by validation: no remote request is issued, the
\* answer is the failure "Invalid post URL format", and the log entry the
\* dispatch created ends failed.
C10_MalformedUrlLoggedFailed ==
  \A h \in Handlers :
    (/\ pc[h] = "done"
     /\ body[h].type \in {"like", "unlike", "comment"}
     /\ Malformed(body[h].postUrl)
     /\ ~MissingRequired(body[h])
     /\ Len(userCookies[h]) > 0) =>
      /\ res[h] = [status |-> 200,
                    body |-> [success |-> FALSE, message |-> "Invalid post URL format"]]
      /\ sent[h] = <<>>
      /\ Logged(h) /\ EntryOf(h).status = "failed"

C10_Witness ==
  \E h \in Handlers :
    /\ pc[h] = "done" /\ body[h].type = "comment"
    /\ body[h].postUrl = BadUrl /\ body[h].commentText # NoValue
    /\ Logged(h) /\ EntryOf(h).status = "failed"
    /\ sent[h] = <<>>

\* The operation of handler h has returned a result to the handler.
HasResult(h) == pc[h] \in {"returned", "updated", "done"} /\ "success" \in DOMAIN result[h]

\* The answer to the profile request does not resolve the username: it is
\* not a 200, or it holds no account id.
LookupFailed(resp) == resp.status # 200 \/ resp.body # "user_55"

\* C11 (as claimed): whenever the lookup of a follow or unfollow fails, by a
\* non-200 answer or by an answer without the account id, the operation
\* returns a failure and never issues the mutation request.
C11_FailedLookupShortCircuits ==
  \A h \in Handlers :
    (/\ body[h] # Unset
     /\ body[h].type \in {"follow", "unfollow"}
     /\ Len(received[h]) >= 1
     /\ LookupFailed(received[h][1])) =>
      /\ Len(sent[h]) = 1
      /\ HasResult(h)
      /\ ~result[h].success

\* C12: the steps of one dispatch happen in the order lookup, creation of
\* the pending entry, remote operation (the identifier resolved before the
\* mutation), terminal update, answer: an entry is created only after the
\* lookup found a credential; every request is issued while the handler's
\* entry exists and is pending; a mutation that follows a lookup is issued
\* after the lookup was answered; the entry turns terminal only once the
\* operation returned; and the caller is answered a result only once the
\* entry is terminal.
C12_StepsInOrder ==
  /\ [](\A h \in Handlers :
          /\ Logged(h) => Len(userCookies[h]) > 0 /\ pc[h] \notin {"idle", "cookies"}
          /\ (called[h] # <<>> \/ sent[h] # <<>>) =>
                Logged(h) /\ activityLogId[h] \in DOMAIN activityLogs
          /\ Len(sent[h]) = 2 =>
                /\ sent[h][1].method = "GET" /\ sent[h][2].method = "POST"
                /\ Len(received[h]) >= 1
          /\ (Logged(h) /\ EntryOf(h).status \in Terminal) => HasResult(h)
          /\ (Logged(h) /\ res[h] # Unset) =>
                /\ res[h].body = result[h]
                /\ EntryOf(h).status \in Terminal)
  /\ [][\A h \in Handlers :
          (sent'[h] # sent[h] \/ called'[h] # called[h]) =>
             /\ Logged(h) /\ activityLogId[h] \in DOMAIN activityLogs
             /\ EntryOf(h).status = "pending"
             /\ res[h] = Unset]_vars

C12_Witness ==
  \E h \in Handlers :
    /\ pc[h] = "done" /\ body[h].type = "unfollow"
    /\ Len(sent[h]) = 2 /\ Len(received[h]) = 2
    /\ EntryOf(h).status = "success"
    /\ res[h].status = 200 /\ res[h].body.success

\* The operation the dispatch table assigns to each of the seven kinds.
AssignedOperation(kind) ==
  CASE kind = "follow" -> "followUser"
    [] kind = "unfollow" -> "unfollowUser"
    [] kind = "like" -> "likePost"
    [] kind = "unlike" -> "unlikePost"
    [] kind = "comment" -> "commentPost"
    [] kind = "delete_comment" -> "deleteComment"
    [] kind = "profile_info" -> "getInstagramProfileInfo"

\* C13: a dispatch calls at most one operation, at most once, and a dispatch
\* of one of the seven kinds that got past validation calls exactly the one
\* the table assigns to its kind, with the user's resolved credential; no
\* request is issued twice, at most one of a dispatch's requests is a
\* mutation, and once the operation returned a result (a failure included)
\* it has as many answers as requests: nothing is retried.
C13_OneOperationOnce ==
  \A h \in Handlers :
    /\ Len(called[h]) <= 1
    /\ (Logged(h) /\ pc[h] # "created") => Len(called[h]) = 1
    /\ (called[h] # <<>> /\ body[h].type \in SevenKinds) =>
          /\ called[h][1].op = AssignedOperation(body[h].type)
          /\ userCookies[h][1].userId = user[h]
          /\ called[h][1].cookieStr = userCookies[h][1].cookieString
          /\ \A i \in 1..Len(sent[h]) : sent[h][i].cookie = called[h][1].cookieStr
    /\ Cardinality({i \in 1..Len(sent[h]) : sent[h][i].method = "POST"}) <= 1
    /\ \A i, j \in 1..Len(sent[h]) : i # j => sent[h][i] # sent[h][j]
    /\ HasResult(h) => Len(received[h]) = Len(sent[h])

C13_Witness ==
  \E h \in Handlers :
    /\ pc[h] = "done" /\ body[h].type = "unfollow"
    /\ Len(sent[h]) = 2 /\ Len(received[h]) = 2
    /\ received[h][2].status = 0
    /\ ~result[h].success
    /\ called[h] = <<[op |-> "unfollowUser", cookieStr |-> userCookies[h][1].cookieString]>>

\* C14: under every interleaving of two dispatches, of the same user or of
\* two, no two dispatches hold the same entry id, and an entry changes only
\* in the step in which the dispatch that created it writes the status of
\* its own result under the id its create returned; that step changes no
\* other entry.
C14_EntryWrittenByCreatorOnly ==
  /\ [](\A g, h \in Handlers :
          (g # h /\ Logged(g) /\ Logged(h)) => activityLogId[g] # activityLogId[h])
  /\ [][\A i \in DOMAIN activityLogs :
          (i \notin DOMAIN activityLogs' \/ activityLogs'[i] # activityLogs[i]) =>
             \E h \in Handlers :
               /\ activityLogId[h] = i
               /\ activityLogs[i].userId = user[h]
               /\ pc[h] = "returned" /\ pc'[h] = "updated"
               /\ i \in DOMAIN activityLogs'
               /\ activityLogs'[i].status = StatusOf(result[h])]_vars

C14_Witness ==
  /\ pc[1] = "done" /\ pc[2] = "done"
  /\ Logged(1) /\ Logged(2)
  /\ user[1] # user[2]
  /\ activityLogId[2] < activityLogId[1]
  /\ EntryOf(1).status = "success" /\ EntryOf(2).status = "failed"

\* The handler issued the like request of a post.
Liked(h) == body[h] # Unset /\ body[h].type = "like" /\ Len(sent[h]) = 1

\* The short code in a URL made by PostUrlOf.
CodeIn(url) == SubSeq(url, 4, Len(url) - 1)

OverAlphabet(code) == \A i \in 1..Len(code) : code[i] \in DOMAIN AlphabetIndex

\* The decimal rendering of the base-64 positional value of a code, in
\* arbitrary precision: id = id * 64 + value(char), left to right.
ExactDecimal(code) ==
  LET id[i \in 0..Len(code)] ==
        IF i = 0 THEN <<>> ELSE DigitsTimesPlus[id[i - 1], 64, AlphabetIndex[code[i]]]
  IN  IF id[Len(code)] = <<>> THEN "0" ELSE DigitText[id[Len(code)]]

\* C15 (as claimed): for every short code over the alphabet, the media id
\* the like request is issued with is the decimal rendering of the exact
\* base-64 value of the code (0 for the empty code).
C15_MediaIdIsExactValue ==
  \A h \in Handlers :
    (Liked(h) /\ OverAlphabet(CodeIn(body[h].postUrl))) =>
      sent[h][1].url = "web/likes/" \o ExactDecimal(CodeIn(body[h].postUrl)) \o "/like/"

\* The codes have the same length and differ in exactly one position.
DifferInOne(a, b) ==
  /\ Len(a) = Len(b)
  /\ Cardinality({i \in 1..Len(a) : a[i] # b[i]}) = 1

\* C16 (as claimed): two conversions of the same short code yield the same
\* identifier, and conversions of two short codes of equal length that
\* differ in exactly one character yield different identifiers.
C16_EveryCharacterCounts ==
  \A g, h \in Handlers :
    (Liked(g) /\ Liked(h)) =>
      /\ body[g].postUrl = body[h].postUrl => sent[g][1].url = sent[h][1].url
      /\ DifferInOne(CodeIn(body[g].postUrl), CodeIn(body[h].postUrl)) =>
            sent[g][1].url # sent[h][1].url

\* C17 (as claimed): listByUser(userId, limit) returns only entries of the
\* user, each created strictly later than the one after it (also when
\* entries were created at the same clock value), and at most limit of them.
C17_ListedStrictlyNewestFirst ==
  \A u \in Users, limit \in 0..MaxLimit :
    LET listed == getActivityLogsByUserId(activityLogs, u, limit)
    IN  /\ \A k \in 1..Len(listed) : listed[k].userId = u
        /\ \A k \in 1..(Len(listed) - 1) : listed[k].createdAt > listed[k + 1].createdAt
        /\ Len(listed) <= limit

\* C18: an update under an id the log does not hold returns the not-found
\* indicator and leaves the log as it was; the terminal update of a dispatch
\* whose entry is gone changes nothing, creates no entry, and the dispatch
\* goes on to answer the caller with the operation's result.
C18_MissingIdIsNotFatal ==
  /\ [](\A i \in 1..logId :
          i \notin DOMAIN activityLogs =>
             updateActivityLog(activityLogs, i, [status |-> "failed"], now)
               = [activityLogs |-> activityLogs, found |-> FALSE])
  /\ [][\A h \in Handlers :
          (pc[h] = "returned" /\ pc'[h] # pc[h]
           /\ activityLogId[h] \notin DOMAIN activityLogs) =>
             /\ activityLogs' = activityLogs
             /\ pc'[h] = "updated"]_vars
  /\ [](\A h \in Handlers :
          (pc[h] = "done" /\ Logged(h)) => res[h] = [status |-> 200, body |-> result[h]])

\* The entry of the dispatch was lost while pending, and the dispatch ended
\* with the answer of a success.
C18_Witness ==
  \E h \in Handlers :
    /\ pc[h] = "done" /\ Logged(h)
    /\ activityLogId[h] \notin DOMAIN activityLogs
    /\ result[h].success
    /\ res[h] = [status |-> 200, body |-> result[h]]

\* C19: every entry is stored under its id, below the next id to assign;
\* a create assigns an id above every id the log holds, so ids are unique;
\* and the order of the ids is the order of creation.
C19_IdsIncrease ==
  /\ [](\A i \in DOMAIN activityLogs : activityLogs[i].id = i /\ i < logId)
  /\ [](\A i, j \in DOMAIN activityLogs :
          i < j => activityLogs[i].createdAt <= activityLogs[j].createdAt)
  /\ [][\A i \in DOMAIN activityLogs' \ DOMAIN activityLogs :
          /\ \A j \in DOMAIN activityLogs : j < i
          /\ logId' > i]_vars

C19_Witness ==
  /\ DOMAIN activityLogs = {1, 2}
  /\ activityLogs[1].createdAt < activityLogs[2].createdAt
  /\ activityLogs[1].status = "success"
  /\ "updatedAt" \in DOMAIN activityLogs[1]
  /\ activityLogs[2].status = "pending"

\* The answer makes the operation's code throw: axios rejects it (a
\* transport fault, or a status outside 2xx), or it is a 200 to a follow or
\* unfollow lookup without the data.user object the code reads.
Raises(b, i, resp) ==
  \/ resp.status < 200 \/ resp.status >= 300
  \/ /\ b.type \in {"follow", "unfollow"} /\ i = 1
     /\ resp.status = 200 /\ resp.body \in {"none", "user_null"}

\* The text of the error such an answer raises.
ErrorText(resp) ==
  CASE resp.status = 0 -> "Network Error"
    [] resp.status = 404 -> "Request failed with status code 404"
    [] resp.body = "none" -> "Cannot read properties of undefined (reading 'user')"
    [] resp.body = "user_null" -> "Cannot read properties of null (reading 'id')"

\* What each operation puts before the error text.
ErrorPrefix(b) ==
  CASE b.type = "follow" -> "Error following " \o b.username
    [] b.type = "unfollow" -> "Error unfollowing " \o b.username
    [] b.type = "like" -> "Error liking post"
    [] b.type = "unlike" -> "Error unliking post"
    [] b.type = "comment" -> "Error commenting on post"
    [] b.type = "delete_comment" -> "Error deleting comment"
    [] b.type = "profile_info" -> "Error getting profile info"

\* C20: no operation lets an exception escape to the dispatcher: the
\* handler's catch block never answers (no 500), and after an answer that
\* makes the operation's code throw, at either step, the operation has
\* returned a failure whose message carries the error text, and issued
\* nothing further.
C20_FaultsBecomeFailures ==
  \A h \in Handlers :
    /\ res[h] # Unset => res[h].status # 500
    /\ \A i \in 1..Len(received[h]) :
          Raises(body[h], i, received[h][i]) =>
            /\ HasResult(h)
            /\ result[h] = [success |-> FALSE,
                            message |-> ErrorPrefix(body[h]) \o ": "
                                          \o ErrorText(received[h][i])]
            /\ Len(sent[h]) = i

C20_Witness ==
  \E h \in Handlers :
    /\ pc[h] = "done" /\ body[h].type = "follow"
    /\ Len(received[h]) = 2 /\ received[h][2].status = 0
    /\ res[h] = [status |-> 200,
                  body |-> [success |-> FALSE,
                            message |-> "Error following alice: Network Error"]]

\* C21: the login check issues one request and never a second one (a
\* redirect is not followed); the /check-login handler never answers 500 and
\* reports logged in exactly when that request was answered 200; the login
\* checker's isLoggedIn field is true exactly for an answer of 200 as well.
C21_LoggedInExactlyOn200 ==
  /\ \A s \in Sessions :
        /\ session[s].requests <= 1
        /\ (session[s].pc = "done" /\ session[s].requests > 0) =>
              /\ session[s].res.status = 200
              /\ session[s].res.body.isLoggedIn = (session[s].answer.status = 200)
  /\ \A resp \in LoginResponses :
        isLoggedIn(resp).isLoggedIn = (resp.status = 200)

\* One check answered by a redirect and reported not logged in, another
\* answered 200 and reported logged in.
C21_Witness ==
  \E s, t \in Sessions :
    /\ session[s].pc = "done" /\ session[s].requests = 1
    /\ session[s].answer.status = 302 /\ ~session[s].res.body.isLoggedIn
    /\ session[t].pc = "done" /\ session[t].requests = 1
    /\ session[t].answer.status = 200
    /\ session[t].res.body.isLoggedIn

\* C26 (as claimed): a save-cookie request whose login check is answered by
\* anything but 200 (a redirect, another status, a transport fault) is
\* rejected with "Invalid or expired cookie" and leaves the cookies as they
\* were.
C26_SavedOnlyWhenLoggedIn ==
  [][\A u \in Users, name \in CookieNames, cs \in CookieStrings, resp \in LoginResponses :
       (resp.status # 200 /\ SaveCookie(u, name, cs, resp)) =>
          /\ cookies' = cookies
          /\ saveRes' = Json(400, Failure("Invalid or expired cookie"))]_vars

\* C22: the lookup of a dispatch returns, first, the stored credential of
\* the dispatching user with the lowest id and the earliest creation time
\* (and nothing if the user has none stored); the credential the operation
\* is called with is that first element, and is owned by the dispatching
\* user, whatever other users saved or deleted.
C22_FirstOwnCredential ==
  /\ [](\A h \in Handlers :
          called[h] # <<>> =>
             /\ userCookies[h] # <<>>
             /\ userCookies[h][1].userId = user[h]
             /\ called[h][1].cookieStr = userCookies[h][1].cookieString)
  /\ [][\A h \in Handlers :
          (pc[h] = "idle" /\ pc'[h] = "cookies") =>
             LET mine == {i \in 1..Len(cookies) : cookies[i].userId = user'[h]}
             IN  IF mine = {}
                 THEN userCookies'[h] = <<>>
                 ELSE /\ userCookies'[h] # <<>>
                      /\ \E i \in mine :
                           /\ userCookies'[h][1] = cookies[i]
                           /\ \A j \in mine :
                                /\ cookies[i].id <= cookies[j].id
                                /\ cookies[i].createdAt <= cookies[j].createdAt]_vars

\* A dispatch of one user was served with that user's credential (the
\* second one saved, with its own cookie string) while a credential of the
\* other user, saved earlier, is stored.
C22_Witness ==
  \E h \in Handlers :
    /\ called[h] # <<>>
    /\ userCookies[h][1].id = 2
    /\ Len(cookies) = 2
    /\ cookies[1].userId # user[h]
    /\ cookies[1].cookieString # called[h][1].cookieStr

\* The answer is a 200 whose body has a user object.
CarriesUser(resp) == resp.status = 200 /\ resp.body \in {"user_without_id", "user_55"}

\* C23: once its request is answered, getInstagramProfileInfo has returned
\* a success exactly when the answer is a 200 carrying a user object, with
\* that object under data; for every other answer (another status, a
\* transport fault, a body without the user object) it has returned a
\* failure without a data field.
C23_ProfileOnlyFrom200WithUser ==
  \A h \in Handlers :
    (body[h] # Unset /\ body[h].type = "profile_info" /\ received[h] # <<>>) =>
       /\ HasResult(h)
       /\ result[h].success = CarriesUser(received[h][1])
       /\ IF CarriesUser(received[h][1])
          THEN "data" \in DOMAIN result[h] /\ result[h].data = received[h][1].body
          ELSE "data" \notin DOMAIN result[h]

C23_Witness ==
  \E h \in Handlers :
    /\ pc[h] = "done" /\ body[h].type = "profile_info"
    /\ received[h] = <<[status |-> 200, body |-> "user_55"]>>
    /\ res[h] = [status |-> 200,
                  body |-> [success |-> TRUE,
                            message |-> "Successfully retrieved profile info for alice",
                            data |-> "user_55"]]

\* C24 (as claimed): every stored entry, from its creation on, has a
\* createdAt and an updatedAt; the terminal update sets updatedAt to the
\* time of the update and leaves createdAt as it was.
C24_BothTimestamps ==
  /\ [](\A i \in DOMAIN activityLogs :
          {"createdAt", "updatedAt"} \subseteq DOMAIN activityLogs[i])
  /\ [][\A h \in Handlers :
          (pc[h] = "returned" /\ pc'[h] = "updated") =>
             /\ activityLogs'[activityLogId[h]].updatedAt = now
             /\ activityLogs'[activityLogId[h]].createdAt
                  = activityLogs[activityLogId[h]].createdAt]_vars

\* C25: the terminal update of a dispatch keeps the set of entries, leaves
\* every other entry as it was, and changes nothing of its own entry but
\* status and updatedAt (id, userId, type, accountUsername, action and
\* createdAt stay); no step of any handler removes an entry.
C25_UpdateTouchesStatusOnly ==
  /\ [][\A h \in Handlers :
          (pc[h] = "returned" /\ pc'[h] = "updated") =>
             LET id == activityLogId[h]
             IN  /\ id \in DOMAIN activityLogs
                 /\ DOMAIN activityLogs' = DOMAIN activityLogs
                 /\ \A j \in DOMAIN activityLogs \ {id} : activityLogs'[j] = activityLogs[j]
                 /\ DOMAIN activityLogs'[id] = DOMAIN activityLogs[id] \cup {"updatedAt"}
                 /\ \A k \in DOMAIN activityLogs[id] \ {"status", "updatedAt"} :
                       activityLogs'[id][k] = activityLogs[id][k]
                 /\ {"id", "userId", "type", "accountUsername", "action", "createdAt"}
                       \subseteq DOMAIN activityLogs[id]]_vars
  /\ [][DOMAIN activityLogs \subseteq DOMAIN activityLogs']_vars

\* One dispatch has made its terminal update (to failed) while the entry of
\* the other is still pending.
C25_Witness ==
  \E h, g \in Handlers :
    /\ h # g /\ pc[h] = "updated" /\ Logged(g)
    /\ activityLogs[activityLogId[h]].status = "failed"
    /\ "updatedAt" \in DOMAIN activityLogs[activityLogId[h]]
    /\ activityLogs[activityLogId[g]].status = "pending"

\* C27 (as claimed): no two stored users have the same username, in every
\* state concurrent registrations and the creation of the default admin can
\* reach.
C27_UsernamesUnique ==
  \A i, j \in 1..Len(users) : i # j => users[i].username # users[j].username

\* C28 (as claimed): a record createUser stored stays stored as it is (it
\* is not overwritten), stored ids are distinct, every registrant's id maps
\* to the record createUser returned to it, and the admin record does not
\* sit under an id createUser assigned to a registrant.
C28_CreatedUsersKeepTheirRecord ==
  /\ [][\A i \in 1..Len(users) :
          users[i].role = "user" => \E j \in 1..Len(users') : users'[j] = users[i]]_vars
  /\ [](\A i, j \in 1..Len(users) : i # j => users[i].id # users[j].id)
  /\ [](\A r \in Registrants :
          register[r].user # Unset =>
             /\ \E i \in 1..Len(users) : users[i] = register[r].user
             /\ \A q \in Registrants \ {r} :
                   register[q].user # Unset => register[q].user.id # register[r].user.id)
  /\ [](\A r \in Registrants :
          (adminPc = "done" /\ register[r].user # Unset) => register[r].user.id # 1)

====
